---- MODULE Spec2Model ----
(***************************************************************************)
(* Model of the crawl scripts under scrapy-templates/: one crawl job of    *)
(* one spider, its page counter, the requests it yields and the records    *)
(* it emits; and of scripts/process-anime-character.py: one output         *)
(* directory and the runs of the script on one input file.  Strings are    *)
(* sequences of one-character strings, so that strip(), startswith(),      *)
(* `in` and split() are computed, not assumed.                             *)
(***************************************************************************)
EXTENDS Integers, Sequences, FiniteSets, TLC

\* ------------------------------------------------------------------ bounds
MaxPages == 2
MaxCues == 2
MaxScopes == 2
MaxTrends == 2
MaxLimit == 2
MaxRecords == 3
MaxRuns == 2

\* ------------------------------------------------------------------ strings
None == <<"<None>">>

\* Python truthiness of an optional string: None and '' are falsy
Truthy(v) == v # None /\ v # <<>>

\* a or b
Or(a, b) == IF Truthy(a) THEN a ELSE b

IsSpace(c) == c = " "

RECURSIVE LStrip(_)
LStrip(s) == IF s # <<>> /\ IsSpace(Head(s)) THEN LStrip(Tail(s)) ELSE s

RECURSIVE RStrip(_)
RStrip(s) ==
    IF s # <<>> /\ IsSpace(s[Len(s)]) THEN RStrip(SubSeq(s, 1, Len(s) - 1)) ELSE s

\* str.strip()
Strip(s) == RStrip(LStrip(s))

\* str.startswith(p)
StartsWith(s, p) == Len(s) >= Len(p) /\ SubSeq(s, 1, Len(p)) = p

\* p in s
Contains(s, p) ==
    \E i \in 1..(Len(s) - Len(p) + 1) : SubSeq(s, i, i + Len(p) - 1) = p

\* index of the first c in s, 0 if there is none
RECURSIVE IndexOf(_, _, _)
IndexOf(s, c, i) ==
    IF i > Len(s) THEN 0 ELSE IF s[i] = c THEN i ELSE IndexOf(s, c, i + 1)

\* index of the last c in s, 0 if there is none
RECURSIVE LastIndexOf(_, _, _)
LastIndexOf(s, c, i) ==
    IF i < 1 THEN 0 ELSE IF s[i] = c THEN i ELSE LastIndexOf(s, c, i - 1)

\* str.split(c)
RECURSIVE Split(_, _)
Split(s, c) ==
    LET i == IndexOf(s, c, 1)
    IN  IF i = 0 THEN <<s>>
        ELSE <<SubSeq(s, 1, i - 1)>> \o Split(SubSeq(s, i + 1, Len(s)), c)

\* sep.join(parts)
RECURSIVE Join(_, _)
Join(sep, parts) ==
    IF parts = <<>> THEN <<>>
    ELSE IF Len(parts) = 1 THEN parts[1]
    ELSE parts[1] \o sep \o Join(sep, Tail(parts))

\* sequences over S of length at most n
SeqsUpTo(S, n) == UNION {[1..k -> S] : k \in 0..n}

\* ------------------------------------------------------------------ URLs
\* An absolute URL is "h" (scheme and host), a path starting with "/" and an
\* optional query starting with "?".
StripQuery(u) ==
    LET i == IndexOf(u, "?", 1) IN IF i = 0 THEN u ELSE SubSeq(u, 1, i - 1)

\* response.urljoin(ref): resolution of a reference against the response URL
Urljoin(base, ref) ==
    IF ref = <<>> THEN base
    ELSE IF ref[1] = "h" THEN ref
    ELSE IF ref[1] = "/" THEN <<"h">> \o ref
    ELSE IF ref[1] = "?" THEN StripQuery(base) \o ref
    ELSE LET b == StripQuery(base)
         IN  SubSeq(b, 1, LastIndexOf(b, "/", Len(b))) \o ref

\* ------------------------------------------------------------------ selectors
\* A parsed document, and each item scope in it, is seen through the queries
\* the code makes: a function from selector to the list of matched strings.

\* selector.css(q).getall()
GetAll(node, q) == IF q \in DOMAIN node THEN node[q] ELSE <<>>

\* selector.css(q).get()
Get(node, q) == IF GetAll(node, q) = <<>> THEN None ELSE GetAll(node, q)[1]

\* selector.css(q).get(default)
GetOr(node, q, default) ==
    IF GetAll(node, q) = <<>> THEN default ELSE GetAll(node, q)[1]

\* concatenation of a sequence of sequences: what a generator yields in all
Concat(ss) ==
    LET RECURSIVE cat(_)
        cat(i) == IF i > Len(ss) THEN <<>> ELSE ss[i] \o cat(i + 1)
    IN  cat(1)

\* ------------------------------------------------------------------ the job
Spiders ==
    {"anime_character", "freesound", "musopen", "anime_gf", "character_ai",
     "character_db", "archive_org", "personality_traits", "hooktheory"}

ConcurrentRequestsUnset(s) == 16

\* custom_settings['CONCURRENT_REQUESTS']; a spider that sets none runs with
\* the framework's default of 16
ConcurrentRequests(s) ==
    CASE s = "freesound" -> 2
      [] s \in {"anime_character", "anime_gf", "character_ai", "character_db",
                "personality_traits"} -> 1
      [] OTHER -> 16

\* start_urls: every spider has exactly one seed, a search URL with a query
StartUrl == <<"h", "/", "s", "?", "q">>

VARIABLES
    spider,         \* the spider this job runs
    lifo,           \* whether the scheduler's queue is last-in-first-out
    pages,          \* self.pages
    current_page,   \* self.current_page
    queue,          \* requests yielded and not yet sent
    inflight,       \* requests sent and not yet answered
    response,       \* the response the callback of the last step handled
    out,            \* what that callback yielded, in order
    ran,            \* the parse functions it ran; {} if the step ran none
    raised,         \* whether it ended with an exception
    log,            \* the page-numbered yields of the job so far, in order
    parsed,         \* number of listing pages handled so far
    limit,          \* self.limit (hooktheory)
    processed_count,\* self.processed_count (hooktheory)
    raw_data,       \* the decoded content of the processing script's input file
    files,          \* the output directory: file name -> what was dumped to it
    returned,       \* what the last run of the processing script returned
    runs            \* how many times the processing script has run

\* the state of the crawl job, and the state of the processing script
crawlvars ==
    <<spider, lifo, pages, current_page, queue, inflight, response, out, ran, raised,
      log, parsed, limit, processed_count>>
procvars == <<raw_data, files, returned, runs>>

vars == <<crawlvars, procvars>>

\* scrapy.Request(url, callback=..., meta=...)
Request(url, callback, meta) ==
    [url |-> url, callback |-> callback, meta |-> meta]

\* a request built without meta
NoMeta == <<>>

\* a yielded record / a yielded request
Item(rec) == [kind |-> "item", rec |-> rec]
Req(r) == [kind |-> "request", req |-> r]

IsItem(e) == e.kind = "item"
IsNextPage(e) == e.kind = "request" /\ e.req.callback = "parse"
IsDrillDown(e) == e.kind = "request" /\ e.req.callback # "parse"

\* the spider object as the callbacks read it
Self ==
    [pages |-> pages, current_page |-> current_page, limit |-> limit,
     processed_count |-> processed_count]

\* what a callback does: its yields, the counter it leaves, the parse
\* functions it ran, whether it raised
Result(o, cp, r, x) == [out |-> o, current_page |-> cp, ran |-> r, raised |-> x]

\* the "# Pagination" block shared by the listing callbacks: selector q
\* names the next-page cue
PaginationWide(self, resp, q) ==
    IF self.current_page < self.pages /\ Truthy(Get(resp.sel, q))
    THEN [current_page |-> self.current_page + 1,
          out |-> [i \in 1..Len(GetAll(resp.sel, q)) |->
                      Req(Request(Urljoin(resp.url, GetAll(resp.sel, q)[i]),
                                  "parse", NoMeta))]]
    ELSE [current_page |-> self.current_page, out |-> <<>>]

PaginationOffByOne(self, resp, q) ==
    IF self.current_page <= self.pages
    THEN LET next_page == Get(resp.sel, q)
         IN  IF Truthy(next_page)
             THEN [current_page |-> self.current_page + 1,
                   out |-> <<Req(Request(Urljoin(resp.url, next_page), "parse",
                                         NoMeta))>>]
             ELSE [current_page |-> self.current_page, out |-> <<>>]
    ELSE [current_page |-> self.current_page, out |-> <<>>]

PaginationCountsFirst(self, resp, q) ==
    IF self.current_page < self.pages
    THEN LET next_page == Get(resp.sel, q)
         IN  [current_page |-> self.current_page + 1,
              out |-> IF Truthy(next_page)
                      THEN <<Req(Request(Urljoin(resp.url, next_page), "parse",
                                         NoMeta))>>
                      ELSE <<>>]
    ELSE [current_page |-> self.current_page, out |-> <<>>]

Pagination(self, resp, q) ==
    IF self.current_page < self.pages
    THEN LET next_page == Get(resp.sel, q)
         IN  IF Truthy(next_page)
             THEN [current_page |-> self.current_page + 1,
                   out |-> <<Req(Request(Urljoin(resp.url, next_page), "parse",
                                         NoMeta))>>]
             ELSE [current_page |-> self.current_page, out |-> <<>>]
    ELSE [current_page |-> self.current_page, out |-> <<>>]

\* ------------------------------------------------------------------ anime-character.py
sCharacter == <<"/", "c", "h", "a", "r", "a", "c", "t", "e", "r", "/">>

AnimeCharacterRow(self, resp, row) ==
    LET char_link == Get(row, "td a::attr(href)")
        char_id == IF Contains(char_link, <<"/">>)
                   THEN Split(char_link, "/")[Len(Split(char_link, "/")) - 1]
                   ELSE <<>>
    IN  IF ~Truthy(char_link) \/ ~Contains(char_link, sCharacter)
        THEN <<>>
        ELSE <<Item([id |-> char_id,
                     name |-> Strip(GetOr(row, "td a::text", <<>>)),
                     url |-> Urljoin(resp.url, char_link),
                     anime |-> Strip(GetOr(row, "td:nth-child(2) a::text", <<>>)),
                     roles |-> Strip(GetOr(row, "td:nth-child(3)::text", <<>>)),
                     query |-> "fantasy",
                     source |-> "myanimelist.net",
                     page |-> self.current_page])>>

AnimeCharacterSpider_parse(self, resp) ==
    LET rows == Concat([i \in 1..Len(resp.items) |->
                           AnimeCharacterRow(self, resp, resp.items[i])])
        pg == Pagination(self, resp, "a[rel=\"next\"]::attr(href)")
    IN  Result(rows \o pg.out, pg.current_page, {"parse"}, FALSE)

\* ------------------------------------------------------------------ freesound-basic.py
sApplicationJson == <<"a", "p", "p", "l", "i", "c", "a", "t", "i", "o", "n", "/", "j", "s", "o", "n">>

\* json.loads(response.text) is modelled by its outcome: the body is not
\* JSON ("invalid"), or it decodes to an object (a function from its keys),
\* or to some other value ("other": a list, a number, a string, null).
\* Where the code tells a list or a string from the other values, these are
\* an "array" and a "string", and "other" is a number or null.
JInvalid == [t |-> "invalid"]
JOther == [t |-> "other"]
JObject(d) == [t |-> "object", d |-> d]
JArray(a) == [t |-> "array", a |-> a]
JString(s) == [t |-> "string", s |-> s]

\* dict.get(k, default)
DictGet(d, k, default) == IF k \in DOMAIN d THEN d[k] ELSE default

FreesoundApiItem(self, item) ==
    Item([id |-> DictGet(item.d, "id", <<>>),
          name |-> DictGet(item.d, "name", <<>>),
          url |-> DictGet(item.d, "url", <<>>),
          username |-> DictGet(item.d, "username", <<>>),
          duration |-> DictGet(item.d, "duration", <<>>),
          license |-> DictGet(item.d, "license", <<>>),
          downloads |-> DictGet(item.d, "download", <<"0">>),
          description |-> DictGet(item.d, "description", <<>>),
          genre |-> "ambient",
          source |-> "freesound.org",
          page |-> self.current_page])

\* index of the first element of results that is no object, 0 if all are
FirstNonObject(results) ==
    IF \E i \in 1..Len(results) : results[i].t # "object"
    THEN CHOOSE i \in 1..Len(results) :
            /\ results[i].t # "object"
            /\ \A j \in 1..(i - 1) : results[j].t = "object"
    ELSE 0

FreesoundSpider_parse_api(self, resp) ==
    IF resp.json.t = "invalid"
    THEN \* except json.JSONDecodeError
         Result(<<>>, self.current_page, {"parse_api"}, FALSE)
    ELSE IF resp.json.t # "object"
    THEN \* data.get: AttributeError, not caught
         Result(<<>>, self.current_page, {"parse_api"}, TRUE)
    ELSE LET data == resp.json.d
             results == DictGet(data, "results", <<>>)
             bad == FirstNonObject(results)
         IN  IF results = <<>>
             THEN Result(<<>>, self.current_page, {"parse_api"}, FALSE)
             ELSE IF bad # 0
             THEN \* item.get: AttributeError after the items before it
                  Result([i \in 1..(bad - 1) |-> FreesoundApiItem(self, results[i])],
                         self.current_page, {"parse_api"}, TRUE)
             ELSE LET recs == [i \in 1..Len(results) |->
                                  FreesoundApiItem(self, results[i])]
                      next_url == DictGet(data, "next", None)
                  IN  IF self.current_page < self.pages /\ Truthy(next_url)
                      THEN Result(recs \o <<Req(Request(next_url, "parse", NoMeta))>>,
                                  self.current_page + 1, {"parse_api"}, FALSE)
                      ELSE Result(recs, self.current_page, {"parse_api"}, FALSE)

FreesoundWebBox(self, resp, sample_box) ==
    LET sample_id == Strip(GetOr(sample_box, "::attr(data-sound-id)", <<>>))
    IN  IF Truthy(sample_id)
        THEN <<Item([id |-> sample_id,
                     name |-> Strip(GetOr(sample_box, "a.title::text", <<>>)),
                     url |-> Urljoin(resp.url,
                                     GetOr(sample_box, "a.title::attr(href)", <<>>)),
                     username |-> Strip(GetOr(sample_box, "a.user::text", <<>>)),
                     duration |-> Strip(GetOr(sample_box, "span.duration::text", <<>>)),
                     license |-> Strip(GetOr(sample_box, "span.license::text", <<>>)),
                     downloads |->
                         Strip(GetOr(sample_box, "span.num-downloads::text", <<>>)),
                     genre |-> "ambient",
                     source |-> "freesound.org",
                     page |-> self.current_page])>>
        ELSE <<>>

FreesoundSpider_parse_web(self, resp) ==
    LET boxes == Concat([i \in 1..Len(resp.items) |->
                            FreesoundWebBox(self, resp, resp.items[i])])
        pg == Pagination(self, resp, "a.next::attr(href)")
    IN  Result(boxes \o pg.out, pg.current_page, {"parse_web"}, FALSE)

\* response.headers.get('content-type', b'').decode('utf-8', 'ignore')
ContentType(resp) == GetOr(resp.headers, "content-type", <<>>)

IsApiResponseExact(resp) == ContentType(resp) = sApplicationJson

IsApiResponse(resp) == StartsWith(ContentType(resp), sApplicationJson)

FreesoundSpider_parse(self, resp) ==
    IF IsApiResponse(resp)
    THEN FreesoundSpider_parse_api(self, resp)
    ELSE FreesoundSpider_parse_web(self, resp)

\* ------------------------------------------------------------------ musopen.py
MusopenSpider_get_format(url) ==
    IF ~Truthy(url) THEN "unknown"
    ELSE IF Contains(url, <<".", "m", "p", "3">>) THEN "mp3"
    ELSE IF Contains(url, <<".", "f", "l", "a", "c">>) THEN "flac"
    ELSE IF Contains(url, <<".", "o", "g", "g">>) THEN "ogg"
    ELSE IF Contains(url, <<".", "w", "a", "v">>) THEN "wav"
    ELSE "unknown"

MusopenItem(self, resp, item) ==
    LET title == Strip(GetOr(item, "h3.music-title::text", <<>>))
        composer == Strip(GetOr(item, "span.composer::text", <<>>))
        duration == Strip(GetOr(item, "span.duration::text", <<>>))
        download_btn == Get(item, "a.download::attr(href)")
        music_id == GetOr(item, "div.music-item::attr(data-id)", <<>>)
    IN  IF Truthy(title) /\ Truthy(music_id)
        THEN <<Item([title |-> title,
                     composer |-> composer,
                     duration |-> duration,
                     music_id |-> music_id,
                     download_url |-> IF Truthy(download_btn)
                                      THEN Urljoin(resp.url, download_btn)
                                      ELSE <<>>,
                     category |-> "classical",
                     format |-> MusopenSpider_get_format(download_btn),
                     page |-> self.current_page,
                     source |-> "musopen.org"])>>
        ELSE <<>>

MusopenSpider_parse(self, resp) ==
    LET items == Concat([i \in 1..Len(resp.items) |->
                            MusopenItem(self, resp, resp.items[i])])
        pg == Pagination(self, resp, "a.next-page::attr(href)")
    IN  Result(items \o pg.out, pg.current_page, {"parse"}, FALSE)

\* ------------------------------------------------------------------ anime-gf.py
\* the card's link: three strategies, first truthy one wins
AnimeGfCharLink(card) ==
    Or(Or(Get(card, "a::attr(href)"), Get(card, "h3 a::attr(href)")),
       Get(card, "[data-url]::attr(data-url)"))

\* the card's name: four strategies joined by `or`, stripped afterwards
AnimeGfName(card) ==
    LET name == Or(Or(Or(Get(card, "h3::text"), Get(card, "h4::text")),
                      Get(card, "span.name::text")),
                   GetOr(card, "a::text", <<>>))
    IN  IF Truthy(name) THEN Strip(name) ELSE <<>>

AnimeGfCharDataFirstHeading(card) ==
    [name |-> Or(Get(card, "h3::text"), <<>>), category |-> "popular"]

\* meta={'char_data': ...}: the partial data a drill-down request carries
AnimeGfCharData(card) == [name |-> AnimeGfName(card), category |-> "popular"]

AnimeGfCard(self, resp, card) ==
    LET char_link == AnimeGfCharLink(card)
        char_id == IF Contains(char_link, <<"/">>)
                   THEN Split(char_link, "/")[Len(Split(char_link, "/"))]
                   ELSE <<>>
    IN  IF ~Truthy(char_link) \/ ~StartsWith(char_link, <<"/">>)
        THEN <<>>
        ELSE <<Item([id |-> char_id,
                     name |-> AnimeGfName(card),
                     anime |-> Strip(Or(Or(Get(card, "p.anime-title::text"),
                                           Get(card, "span.anime::text")), <<>>)),
                     description |-> Strip(Or(Or(Get(card, "p.description::text"),
                                                 Get(card, "div.bio::text")), <<>>)),
                     personality_type |->
                         Strip(Or(Or(Get(card, "span.personality::text"),
                                     Get(card, "span.type::text")), <<>>)),
                     traits |-> Join(<<",">>, GetAll(card, "span.trait, span.tag::text")),
                     image_url |-> Or(Or(Get(card, "img::attr(src)"),
                                         Get(card, "img::attr(data-src)")), <<>>),
                     rating |-> Strip(Or(Or(Get(card, "span.rating::text"),
                                            Get(card, "[data-rating]::text")), <<>>)),
                     popularity |-> Strip(Or(Or(Get(card, "span.popularity::text"),
                                                Get(card, "[data-popularity]::text")),
                                             <<>>)),
                     url |-> Urljoin(resp.url, char_link),
                     category |-> "popular",
                     source |-> "anime.gf",
                     page |-> self.current_page]),
                Req(Request(Urljoin(resp.url, char_link), "parse_character_detail",
                            [char_data |-> AnimeGfCharData(card)]))>>

AnimeGfSpider_parse(self, resp) ==
    LET cards == Concat([i \in 1..Len(resp.items) |->
                            AnimeGfCard(self, resp, resp.items[i])])
        pg == Pagination(self, resp, "a.next, a[rel=\"next\"]::attr(href)")
    IN  Result(cards \o pg.out, pg.current_page, {"parse"}, FALSE)

AnimeGfSpider_parse_character_detail(self, resp) ==
    LET char_data == DictGet(resp.meta, "char_data", <<>>)
        parts == Split(resp.url, "/")
    IN  Result(
          <<Item([id |-> parts[Len(parts)],
                  name |-> Or(Strip(GetOr(resp.sel, "h1.title::text", <<>>)),
                              DictGet(char_data, "name", <<>>)),
                  anime |-> Strip(GetOr(resp.sel, "a.anime-link::text", <<>>)),
                  description |-> Strip(GetOr(resp.sel, "div.bio-text::text", <<>>)),
                  personality |->
                      Strip(GetOr(resp.sel, "span.personality-type::text", <<>>)),
                  traits |-> Join(<<",">>, GetAll(resp.sel, "span.character-trait::text")),
                  personality_traits |->
                      Join(<<",">>, GetAll(resp.sel, "div.personality-section span::text")),
                  role |-> Strip(GetOr(resp.sel, "span.character-role::text", <<>>)),
                  age |-> Strip(GetOr(resp.sel, "span.age::text", <<>>)),
                  height |-> Strip(GetOr(resp.sel, "span.height::text", <<>>)),
                  hair_color |-> Strip(GetOr(resp.sel, "span.hair-color::text", <<>>)),
                  eye_color |-> Strip(GetOr(resp.sel, "span.eye-color::text", <<>>)),
                  voice_actor |-> Strip(GetOr(resp.sel, "span.voice-actor::text", <<>>)),
                  likes |-> Join(<<",">>, GetAll(resp.sel, "div.likes ul li::text")),
                  dislikes |-> Join(<<",">>, GetAll(resp.sel, "div.dislikes ul li::text")),
                  skills |-> Join(<<",">>, GetAll(resp.sel, "div.skills ul li::text")),
                  image_url |-> GetOr(resp.sel, "img.character-image::attr(src)", <<>>),
                  rating |-> Strip(GetOr(resp.sel, "span.rating::text", <<>>)),
                  votes |-> Strip(GetOr(resp.sel, "span.votes::text", <<>>)),
                  url |-> resp.url,
                  category |-> DictGet(char_data, "category", "popular"),
                  source |-> "anime.gf",
                  detailed |-> TRUE])>>,
          self.current_page, {"parse_character_detail"}, FALSE)

\* ------------------------------------------------------------------ character-ai.py
CharacterAiCard(self, resp, card) ==
    LET char_id == Get(card, "::attr(data-character-id)")
        char_link == Get(card, "a::attr(href)")
    IN  IF ~Truthy(char_link)
        THEN <<>>
        ELSE <<Item([id |-> Or(char_id, <<>>),
                     name |-> Strip(GetOr(card, "h3::text", <<>>)),
                     description |-> Strip(GetOr(card, "p.description::text", <<>>)),
                     category |-> "fantasy",
                     author |-> Strip(GetOr(card, "span.author::text", <<>>)),
                     rating |-> Strip(GetOr(card, "span.rating::text", <<>>)),
                     chat_count |-> Strip(GetOr(card, "span.chats::text", <<>>)),
                     url |-> Urljoin(resp.url, char_link),
                     avatar |-> GetOr(card, "img::attr(src)", <<>>),
                     tags |-> Join(<<",">>, GetAll(card, "span.tag::text")),
                     source |-> "character.ai",
                     page |-> self.current_page])>>

CharacterAiSpider_parse(self, resp) ==
    LET cards == Concat([i \in 1..Len(resp.items) |->
                            CharacterAiCard(self, resp, resp.items[i])])
        pg == Pagination(self, resp, "a.next::attr(href)")
    IN  Result(cards \o pg.out, pg.current_page, {"parse"}, FALSE)

\* ------------------------------------------------------------------ character-db.py
\* the entry's id: the data-id attribute, else the first cell's stripped text
CharacterDbId(char) ==
    Or(Get(char, "::attr(data-id)"),
       Strip(GetOr(char, "td:first-child::text", <<>>)))

CharacterDbEntry(self, resp, char) ==
    LET char_id == CharacterDbId(char)
        char_name == Strip(GetOr(char, "span.name, td.name::text", <<>>))
    IN  IF ~Truthy(char_name)
        THEN <<>>
        ELSE <<Item([id |-> Or(char_id, <<>>),
                     name |-> char_name,
                     description |->
                         Strip(GetOr(char, "p.description, td.description::text", <<>>)),
                     personality |->
                         Strip(GetOr(char, "span.personality, td.personality::text", <<>>)),
                     traits |-> Join(<<",">>, GetAll(char, "span.trait, td.traits::text")),
                     category |-> "fantasy",
                     origin |-> Strip(GetOr(char, "span.origin, td.origin::text", <<>>)),
                     role |-> Strip(GetOr(char, "span.role, td.role::text", <<>>)),
                     source |-> "character-db",
                     url |-> Urljoin(resp.url,
                                     Or(GetOr(char, "a::attr(href)", <<>>), <<>>)),
                     page |-> self.current_page])>>

CharacterDbPaginatesFirst(self, resp) ==
    LET pg == Pagination(self, resp, "a.next, a[aria-label*=\"next\"]::attr(href)")
        chars == Concat([i \in 1..Len(resp.items) |->
                            CharacterDbEntry([self EXCEPT !.current_page = pg.current_page],
                                             resp, resp.items[i])])
    IN  Result(pg.out \o chars, pg.current_page, {"parse"}, FALSE)

CharacterPersonalityDatabaseSpider_parse(self, resp) ==
    LET chars == Concat([i \in 1..Len(resp.items) |->
                            CharacterDbEntry(self, resp, resp.items[i])])
        pg == Pagination(self, resp, "a.next, a[aria-label*=\"next\"]::attr(href)")
    IN  Result(chars \o pg.out, pg.current_page, {"parse"}, FALSE)

\* ------------------------------------------------------------------ archive-org.py
sDownload == <<"h", "/", "d", "o", "w", "n", "l", "o", "a", "d", "/">>

ArchiveOrgItem(self, resp, item) ==
    LET found == GetOr(item, "div.identifier::text", <<>>)
        identifier == IF Truthy(found) THEN Strip(found) ELSE found
    IN  <<Item([title |-> Strip(GetOr(item, "div.title-text a::text", <<>>)),
                identifier |-> identifier,
                creator |-> Strip(GetOr(item, "div.creator::text", <<>>)),
                date |-> Strip(GetOr(item, "div.date::text", <<>>)),
                description |-> Strip(GetOr(item, "div.description::text", <<>>)),
                download_url |-> IF Truthy(identifier)
                                 THEN sDownload \o identifier \o <<"/">>
                                 ELSE <<>>,
                genre |-> "ambient",
                source |-> "archive.org",
                page |-> self.current_page])>>

ArchiveOrgAudioSpider_parse(self, resp) ==
    LET items == Concat([i \in 1..Len(resp.items) |->
                            ArchiveOrgItem(self, resp, resp.items[i])])
        pg == Pagination(self, resp, "a.next::attr(href)")
    IN  Result(items \o pg.out, pg.current_page, {"parse"}, FALSE)

\* ------------------------------------------------------------------ personality-traits.py
\* the [:3] of the detail-link loop
DetailLinkLimit == 3

PersonalityCard(self, resp, card) ==
    LET type_code == Get(card, "::attr(data-type)")
    IN  <<Item([id |-> Or(type_code, <<>>),
                name |-> Strip(GetOr(card, "h3::text", <<>>)),
                code |-> Or(type_code, <<>>),
                description |-> Strip(GetOr(card, "p::text", <<>>)),
                traits |-> Join(<<",">>, GetAll(card, "span.trait::text")),
                strengths |-> Join(<<",">>, GetAll(card, "ul.strengths li::text")),
                weaknesses |-> Join(<<",">>, GetAll(card, "ul.weaknesses li::text")),
                url |-> Urljoin(resp.url, Or(GetOr(card, "a::attr(href)", <<>>), <<>>)),
                category |-> "mbti",
                source |-> "16personalities.com",
                page |-> self.current_page])>>

PersonalityTraitsSpider_parse(self, resp) ==
    LET cards == Concat([i \in 1..Len(resp.items) |->
                            PersonalityCard(self, resp, resp.items[i])])
        links == GetAll(resp.sel, "a.type-link::attr(href)")
        first == SubSeq(links, 1, IF Len(links) < DetailLinkLimit
                                  THEN Len(links) ELSE DetailLinkLimit)
        follow == IF self.current_page < self.pages
                  THEN [i \in 1..Len(first) |->
                           Req(Request(Urljoin(resp.url, first[i]),
                                       "parse_personality_detail", NoMeta))]
                  ELSE <<>>
    IN  Result(cards \o follow, self.current_page, {"parse"}, FALSE)

PersonalityTraitsSpider_parse_personality_detail(self, resp) ==
    LET personality_type == Strip(GetOr(resp.sel, "h1::text", <<>>))
    IN  Result(
          <<Item([id |-> SubSeq(personality_type, 1,
                                IF Len(personality_type) < 4
                                THEN Len(personality_type) ELSE 4),
                  name |-> personality_type,
                  description |-> Strip(GetOr(resp.sel, "div.description::text", <<>>)),
                  characteristics |->
                      Join(<<",">>, GetAll(resp.sel, "div.characteristics li::text")),
                  cognitive_functions |->
                      Join(<<",">>, GetAll(resp.sel, "div.functions li::text")),
                  famous_people |->
                      Join(<<",">>, GetAll(resp.sel, "div.famous-people li::text")),
                  career_matches |->
                      Join(<<",">>, GetAll(resp.sel, "div.careers li::text")),
                  url |-> resp.url,
                  category |-> "mbti_detailed",
                  source |-> "16personalities.com"])>>,
          self.current_page, {"parse_personality_detail"}, FALSE)

\* ------------------------------------------------------------------ hooktheory.py
\* the separator of the progression string; "~" stands for the arrow glyph
sArrow == <<" ", "~", " ">>

sTrends == <<"t", "r", "e", "n", "d", "s">>

\* str.lower(), on the letters chord names are written with
LowerChar(c) == CASE c = "I" -> "i" [] c = "V" -> "v" [] OTHER -> c
Lower(s) == [i \in 1..Len(s) |-> LowerChar(s[i])]

\* notation_map.get(base, chord)
NotationMap(base, chord) ==
    CASE base \in {<<"I">>, <<"i">>} -> <<"1">>
      [] base \in {<<"I", "I">>, <<"i", "i">>} -> <<"2">>
      [] base \in {<<"I", "I", "I">>, <<"i", "i", "i">>} -> <<"3">>
      [] base \in {<<"I", "V">>, <<"i", "v">>} -> <<"4">>
      [] base \in {<<"V">>, <<"v">>} -> <<"5">>
      [] base \in {<<"V", "I">>, <<"v", "i">>} -> <<"6">>
      [] base \in {<<"V", "I", "I">>, <<"v", "i", "i">>} -> <<"7">>
      [] OTHER -> chord

HooktheorySpider_chords_to_notation(chords) ==
    Join(<<" ">>,
         [i \in 1..Len(chords) |->
             NotationMap(IF Contains(chords[i], <<"-">>)
                         THEN Split(chords[i], "-")[1]
                         ELSE chords[i],
                         chords[i])])

HooktheorySpider_detect_key(chords) ==
    IF chords # <<>>
    THEN LET first == Lower(chords[1])
         IN  IF Contains(first, <<"m", "a", "j">>) \/ StartsWith(first, <<"I">>)
             THEN "Major"
             ELSE IF Contains(first, <<"m", "i", "n">>) \/ StartsWith(first, <<"v", "i">>)
             THEN "Minor"
             ELSE "Unknown"
    ELSE "Unknown"

\* the chord names of a trend that are not empty, in order
HookChordList(chords) ==
    LET names == [i \in 1..Len(chords) |-> DictGet(chords[i].d, "chord", <<>>)]
    IN  SelectSeq(names, Truthy)

HookItem(trend, chord_list) ==
    Item([progression |-> Join(sArrow, chord_list),
          count |-> DictGet(trend.d, "count", <<"0">>),
          relative_count |-> DictGet(trend.d, "relativefitnessscore", <<"0">>),
          num_songs |-> DictGet(trend.d, "num_songs", <<"0">>),
          notation |-> HooktheorySpider_chords_to_notation(chord_list),
          key |-> HooktheorySpider_detect_key(chord_list),
          source |-> "hooktheory.com",
          music_theory_data |-> TRUE])

HookLimitReachedLate(self, count) == count > self.limit

\* if self.processed_count >= self.limit: break
HookLimitReached(self, count) == count >= self.limit

\* the loop over the trends: acc is what it yielded so far, count the value
\* of self.processed_count.  A trend or a chord that is no object ends the
\* loop with an AttributeError.
RECURSIVE HookTrends(_, _, _, _)
HookTrends(self, trends, count, acc) ==
    IF trends = <<>> \/ HookLimitReached(self, count)
    THEN [out |-> acc, processed_count |-> count, raised |-> FALSE]
    ELSE LET trend == Head(trends)
             chords == IF trend.t = "object" THEN DictGet(trend.d, "chords", <<>>)
                       ELSE <<>>
         IN  IF trend.t # "object" \/ \E i \in 1..Len(chords) : chords[i].t # "object"
             THEN [out |-> acc, processed_count |-> count, raised |-> TRUE]
             ELSE IF HookChordList(chords) = <<>>
             THEN HookTrends(self, Tail(trends), count, acc)
             ELSE HookTrends(self, Tail(trends), count + 1,
                             Append(acc, HookItem(trend, HookChordList(chords))))

\* 'trends' not in data, for the values the operator `in` takes; a number
\* or null makes it a TypeError
HookNoTrends(data) ==
    CASE data.t = "object" -> "trends" \notin DOMAIN data.d
      [] data.t = "array" -> \A i \in 1..Len(data.a) : data.a[i] # JString(sTrends)
      [] data.t = "string" -> ~Contains(data.s, sTrends)
      [] OTHER -> FALSE

\* what parse leaves: its yields, self.processed_count, whether it raised
HookResult(self, o, count, x) ==
    [out |-> o, current_page |-> self.current_page, processed_count |-> count,
     ran |-> {"parse"}, raised |-> x]

HooktheorySpider_parse(self, resp) ==
    IF resp.json.t = "invalid"
    THEN \* except json.JSONDecodeError
         HookResult(self, <<>>, self.processed_count, FALSE)
    ELSE IF resp.json.t = "other"
    THEN \* 'trends' not in data: TypeError
         HookResult(self, <<>>, self.processed_count, TRUE)
    ELSE IF HookNoTrends(resp.json)
    THEN HookResult(self, <<>>, self.processed_count, FALSE)
    ELSE IF resp.json.t # "object"
    THEN \* data.get: AttributeError
         HookResult(self, <<>>, self.processed_count, TRUE)
    ELSE LET trends == resp.json.d.trends
         IN  IF trends.t # "array"
             THEN \* for trend in a number or null: TypeError
                  HookResult(self, <<>>, self.processed_count, TRUE)
             ELSE LET r == HookTrends(self, trends.a, self.processed_count, <<>>)
                  IN  HookResult(self, r.out, r.processed_count, r.raised)

\* ------------------------------------------------------------------ documents
\* The documents a site may answer with.  Each spider sees a document only
\* through its own selectors, so a document is given by what those return.

\* next-page references: to another page, to the seed URL itself, empty
CueN == <<"?", "n">>
CueQ == <<"?", "q">>
\* an element matched by the element half of a grouped selector (a.next in
\* "a.next, a[rel=next]::attr(href)") comes back as its markup
CueMarkup == <<"<", "a", ">">>

NextSelector(s) ==
    CASE s = "anime_character" -> "a[rel=\"next\"]::attr(href)"
      [] s = "musopen" -> "a.next-page::attr(href)"
      [] s = "anime_gf" -> "a.next, a[rel=\"next\"]::attr(href)"
      [] s = "character_db" -> "a.next, a[aria-label*=\"next\"]::attr(href)"
      [] s = "personality_traits" -> "a.type-link::attr(href)"
      [] OTHER -> "a.next::attr(href)"

CueValues(s) ==
    IF s \in {"anime_gf", "character_db"}
    THEN {CueN, CueQ, CueMarkup}
    ELSE {CueN, CueQ, <<>>}

CueLists(s) ==
    IF s = "personality_traits"
    THEN {<<>>, <<CueN>>, <<CueN, CueQ, CueN, CueQ>>}
    ELSE SeqsUpTo(CueValues(s), MaxCues)

sRei == <<"R", "e", "i">>
sAsuka == <<"A", "s", "u", "k", "a">>
sBlank == <<" ">>

ItemScopes(s) ==
    CASE s = "anime_character" ->
           { <<>>,
             ("td a::attr(href)" :> <<<<"h", "/", "c", "h", "a", "r", "a", "c", "t", "e", "r", "/", "7", "/", "R">>>>) @@
                 ("td a::text" :> <<<<" ", "R", "e", "i">>>>),
             ("td a::attr(href)" :> <<<<"h", "/", "a", "n", "i", "m", "e", "/", "3">>>>) @@ ("td a::text" :> <<sAsuka>>) }
      [] s = "freesound" ->
           { ("::attr(data-sound-id)" :> <<<<"5">>>>) @@ ("a.title::text" :> <<sRei>>) @@
                 ("a.title::attr(href)" :> <<<<"/", "s", "/", "5">>>>),
             ("::attr(data-sound-id)" :> <<sBlank>>) }
      [] s = "musopen" ->
           { <<>>,
             ("h3.music-title::text" :> <<sRei>>),
             ("h3.music-title::text" :> <<sRei>>) @@
                 ("div.music-item::attr(data-id)" :> <<<<"4">>>>) @@
                 ("a.download::attr(href)" :> <<<<"/", "d", "/", "4", ".", "o", "g", "g">>>>) }
      [] s = "anime_gf" ->
           { ("a::attr(href)" :> <<<<"/", "c", "/", "7">>>>) @@ ("h3::text" :> <<sRei>>) @@
                 ("h4::text" :> <<sAsuka>>),
             ("a::attr(href)" :> <<<<"/", "c", "/", "7">>>>) @@ ("h3::text" :> <<sBlank>>) @@
                 ("h4::text" :> <<sAsuka>>),
             ("a::attr(href)" :> << <<>> >>) @@
                 ("[data-url]::attr(data-url)" :> <<<<"/", "c", "/", "7">>>>) @@
                 ("h4::text" :> <<sRei>>) }
      [] s = "character_ai" ->
           { ("::attr(data-character-id)" :> << <<>> >>),
             ("::attr(data-character-id)" :> <<<<"9">>>>),
             ("::attr(data-character-id)" :> <<<<"9">>>>) @@
                 ("a::attr(href)" :> <<<<"/", "c", "/", "9">>>>) @@ ("h3::text" :> <<sRei>>) }
      [] s = "character_db" ->
           { <<>>,
             ("span.name, td.name::text" :> <<sRei>>),
             ("::attr(data-id)" :> <<sBlank>>) @@ ("td:first-child::text" :> <<<<" ", "3", " ">>>>) @@
                 ("span.name, td.name::text" :> <<sRei>>) @@
                 ("a::attr(href)" :> <<<<"/", "c", "/", "3">>>>),
             ("td:first-child::text" :> <<<<" ", "3", " ">>>>) @@
                 ("span.name, td.name::text" :> <<sAsuka>>) }
      [] s = "archive_org" ->
           { <<>>,
             ("div.identifier::text" :> <<<<" ", "a", "b", " ">>>>) @@
                 ("div.title-text a::text" :> <<sRei>>) }
      [] s = "personality_traits" ->
           { <<>>,
             ("::attr(data-type)" :> <<<<"I", "N", "T", "J">>>>) @@ ("h3::text" :> <<sRei>>) @@
                 ("a::attr(href)" :> <<<<"/", "t", "/", "i", "n", "t", "j">>>>) }

Html == ("content-type" :> <<<<"t", "e", "x", "t", "/", "h", "t", "m", "l">>>>)

\* a markup document: response.css finds things, json.loads fails.  Item
\* scopes and next-page cues are read independently of each other, so every
\* list of scopes comes with at most one cue and every list of cues with at
\* most one scope.
MarkupDocs(s) ==
    {[headers |-> Html, items |-> it, sel |-> (NextSelector(s) :> cues),
      json |-> JInvalid] :
        it \in SeqsUpTo(ItemScopes(s), MaxScopes),
        cues \in {c \in CueLists(s) : Len(c) <= 1}}
    \cup
    {[headers |-> Html, items |-> it, sel |-> (NextSelector(s) :> cues),
      json |-> JInvalid] :
        it \in SeqsUpTo(ItemScopes(s), 1), cues \in CueLists(s)}

\* the objects of a Freesound "results" array, and things that are no object
ApiItems ==
    { JObject(<<>>),
      JObject([id |-> <<"5">>, name |-> sRei, url |-> <<"h", "/", "s", "/", "5">>, download |-> <<"1", "2">>]),
      JOther }

\* a JSON document: json.loads decodes it, response.css finds nothing
JsonDocs ==
    {[headers |-> Html, items |-> <<>>, sel |-> <<>>, json |-> j] :
        j \in {JInvalid, JOther, JObject(<<>>), JObject([next |-> CueN])}}
    \cup
    {[headers |-> Html, items |-> <<>>, sel |-> <<>>,
      json |-> JObject([results |-> rs, next |-> nx])] :
        rs \in SeqsUpTo(ApiItems, MaxScopes),
        nx \in {None, <<>>, StartUrl, StripQuery(StartUrl) \o CueN}}

\* content-type headers a server may send; no header at all is <<>>
ContentTypes ==
    { <<>>,
      ("content-type" :> <<sApplicationJson>>),
      ("content-type" :> <<sApplicationJson \o <<";", "u">>>>),
      ("content-type" :> <<<<"t", "e", "x", "t", "/">> \o sApplicationJson>>),
      ("content-type" :> <<SubSeq(sApplicationJson, 1, Len(sApplicationJson) - 1)>>),
      ("content-type" :> << <<"A">> \o Tail(sApplicationJson) >>),
      Html }

\* the elements of a Hooktheory "trends" array: trends without chords, with
\* chords that have no name, with named chords, with a chord that is no
\* object, and a trend that is no object
HookTrendValues ==
    { JObject(<<>>),
      JObject([chords |-> <<JObject([chord |-> <<>>]), JObject(<<>>)>>]),
      JObject([chords |-> <<JObject([chord |-> <<"I">>]), JObject([chord |-> <<>>]),
                            JObject([chord |-> <<"V", "-", "7">>])>>,
               count |-> <<"5">>]),
      JObject([chords |-> <<JObject([chord |-> <<"v", "i">>]),
                            JObject([chord |-> <<"I", "m", "a", "j">>])>>]),
      JObject([chords |-> <<JObject([chord |-> <<"I">>]), JOther>>]),
      JOther }

\* what the trends endpoint may answer with
HookDocs ==
    {[headers |-> Html, items |-> <<>>, sel |-> <<>>, json |-> j] :
        j \in {JInvalid, JOther, JString(sTrends), JArray(<<>>),
               JArray(<<JString(sTrends)>>), JObject(<<>>),
               JObject([trends |-> JOther])}}
    \cup
    {[headers |-> Html, items |-> <<>>, sel |-> <<>>,
      json |-> JObject([trends |-> JArray(ts)])] :
        ts \in SeqsUpTo(HookTrendValues, MaxTrends)}

\* Freesound answers with markup or JSON; the content-type is varied on one
\* document of each kind with records and a next-page cue
ListingDocs(s) ==
    IF s = "freesound"
    THEN MarkupDocs(s)
         \cup {[d EXCEPT !.headers = ("content-type" :> <<sApplicationJson>>)] :
                 d \in JsonDocs}
         \cup {[d EXCEPT !.headers = h] :
                 d \in {x \in MarkupDocs(s) \cup JsonDocs :
                          \/ Len(x.items) = 1 /\ x.sel[NextSelector(s)] = <<CueN>>
                          \/ /\ x.json.t = "object"
                             /\ \E rs \in SeqsUpTo(ApiItems \ {JOther}, 1) :
                                   /\ Len(rs) = 1
                                   /\ x.json.d = [results |-> rs, next |-> StartUrl]},
                 h \in ContentTypes}
    ELSE IF s = "hooktheory" THEN HookDocs
    ELSE MarkupDocs(s)

DetailDocs(s) ==
    IF s = "anime_gf"
    THEN {[headers |-> Html, items |-> <<>>, sel |-> sl, json |-> JInvalid] :
            sl \in { <<>>, ("h1.title::text" :> <<sBlank>>),
                     ("h1.title::text" :> <<sAsuka>>) @@
                         ("div.bio-text::text" :> <<sRei>>) }}
    ELSE {[headers |-> Html, items |-> <<>>, sel |-> sl, json |-> JInvalid] :
            sl \in { <<>>, ("h1::text" :> <<<<"I", "N", "T", "J", "-", "A", " ">>>>) }}

\* the documents of every spider, computed once
ListingDocsOf == [s \in Spiders |-> ListingDocs(s)]
DetailDocsOf == [s \in {"anime_gf", "personality_traits"} |-> DetailDocs(s)]

\* the response to request r when the site answers with document d
Response(r, d) ==
    [url |-> r.url, meta |-> r.meta, headers |-> d.headers, items |-> d.items,
     sel |-> d.sel, json |-> d.json]

NoResponse ==
    [url |-> <<>>, meta |-> <<>>, headers |-> <<>>, items |-> <<>>, sel |-> <<>>,
     json |-> JInvalid]

\* ------------------------------------------------------------------ process-anime-character.py
sMal == <<"m", "a", "l", "-">>
sUnknown == <<"U", "n", "k", "n", "o", "w", "n">>
sMain == <<"M", "a", "i", "n">>
sFantasy == <<"f", "a", "n", "t", "a", "s", "y">>
sAction == <<"a", "c", "t", "i", "o", "n">>
sEva == <<"E", "v", "a">>

\* the dict `processed` built from one element of raw_data
ProcessCharacter(char) ==
    [id |-> sMal \o DictGet(char.d, "id", <<>>),
     name |-> Strip(DictGet(char.d, "name", <<>>)),
     source |-> "myanimelist",
     mal_id |-> DictGet(char.d, "id", <<>>),
     url |-> DictGet(char.d, "url", <<>>),
     series |-> Or(Strip(DictGet(char.d, "anime", <<>>)), sUnknown),
     roles |-> Or(Strip(DictGet(char.d, "roles", <<>>)), sMain),
     category |-> DictGet(char.d, "query", sFantasy),
     personality_traits |-> <<>>,
     description |-> <<>>,
     timestamp |-> None]

\* building `processed` raises an AttributeError: the element is no object
\* (no .get) or a value that is stripped is null (no .strip)
ProcessRaises(char) ==
    \/ char.t # "object"
    \/ \E k \in {"name", "anime", "roles"} : DictGet(char.d, k, <<>>) = None

\* if processed['name']
ProcessRetained(processed) == Truthy(processed.name)

\* a dict filled by `if k not in d: d[k] = []` and `d[k].append(char)` is a
\* sequence of its keys, in insertion order, each with its list
GroupByOverwrite(chars, field) ==
    LET RECURSIVE grp(_)
        grp(n) ==
            IF n = 0 THEN <<>>
            ELSE LET rest == grp(n - 1)
                     k == chars[n][field]
                 IN  IF \E i \in 1..Len(rest) : rest[i].key = k
                     THEN [i \in 1..Len(rest) |->
                              IF rest[i].key = k
                              THEN [rest[i] EXCEPT !.members = <<chars[n]>>]
                              ELSE rest[i]]
                     ELSE Append(rest, [key |-> k, members |-> <<chars[n]>>])
    IN  grp(Len(chars))

GroupBy(chars, field) ==
    LET RECURSIVE grp(_)
        grp(n) ==
            IF n = 0 THEN <<>>
            ELSE LET rest == grp(n - 1)
                     k == chars[n][field]
                 IN  IF \E i \in 1..Len(rest) : rest[i].key = k
                     THEN [i \in 1..Len(rest) |->
                              IF rest[i].key = k
                              THEN [rest[i] EXCEPT !.members = Append(@, chars[n])]
                              ELSE rest[i]]
                     ELSE Append(rest, [key |-> k, members |-> <<chars[n]>>])
    IN  grp(Len(chars))

\* list(d.keys())
Keys(d) == [i \in 1..Len(d) |-> d[i].key]

WriteFileAppend(fs, name, content) ==
    IF name \in DOMAIN fs
    THEN (name :> [before |-> fs[name], then |-> content]) @@ fs
    ELSE (name :> content) @@ fs

\* with open(name, 'w') as f: json.dump(content, f): the file holds the
\* value dumped to it, whatever it held before
WriteFile(fs, name, content) == (name :> content) @@ fs

\* what a run of the script returned
NotRun == [t |-> "not run"]
Raised == [t |-> "raised"]
ReturnedEmpty == [t |-> "empty"]
Returned(summary) == [t |-> "returned", v |-> summary]

\* one run of the script on input raw over the output directory fs
process_anime_character_data(raw, fs) ==
    IF raw.t # "array"
    THEN [files |-> fs, returned |-> ReturnedEmpty]
    ELSE IF \E i \in 1..Len(raw.a) : ProcessRaises(raw.a[i])
    THEN [files |-> fs, returned |-> Raised]
    ELSE LET processed_characters ==
                 SelectSeq([i \in 1..Len(raw.a) |-> ProcessCharacter(raw.a[i])],
                           ProcessRetained)
             by_series == GroupBy(processed_characters, "series")
             by_category == GroupBy(processed_characters, "category")
             summary ==
                 [total_characters |-> Len(processed_characters),
                  unique_series |-> Len(by_series),
                  categories |-> Keys(by_category),
                  series_list |-> Keys(by_series),
                  files |-> [all |-> "myanimelist-characters.json",
                             by_series |-> "myanimelist-by-series.json",
                             by_category |-> "myanimelist-by-category.json"]]
         IN  [files |->
                  WriteFile(
                    WriteFile(
                      WriteFile(
                        WriteFile(fs, "myanimelist-characters.json",
                                  processed_characters),
                        "myanimelist-by-series.json", by_series),
                      "myanimelist-by-category.json", by_category),
                    "myanimelist-summary.json", summary),
              returned |-> Returned(summary)]

\* the elements an input file may hold: records as the anime_character
\* spider exports them (two of the same character, one from another query),
\* records whose name is blank or missing, a record with a null name and an
\* element that is no object
ProcessRecords ==
    { JObject([id |-> <<"7">>, name |-> <<" ", "R", "e", "i">>,
               url |-> <<"h", "/", "c", "/", "7">>, anime |-> sEva,
               roles |-> sMain, query |-> sFantasy]),
      JObject([id |-> <<"7">>, name |-> sRei, url |-> <<>>, anime |-> <<>>,
               roles |-> <<>>]),
      JObject([id |-> <<"8">>, name |-> sAsuka, anime |-> <<" ", "E", "v", "a">>,
               query |-> sAction]),
      JObject([id |-> <<"9">>, name |-> sBlank, anime |-> sEva]),
      JObject(<<>>),
      JObject([id |-> <<"3">>, name |-> None]),
      JOther }

\* the decoded input file: a list of such elements, or no list
ProcessInputs ==
    {JObject(<<>>)} \cup {JArray(a) : a \in SeqsUpTo(ProcessRecords, MaxRecords)}

\* ------------------------------------------------------------------ the crawl
Remove(s, i) == SubSeq(s, 1, i - 1) \o SubSeq(s, i + 1, Len(s))

\* the requests among what a callback yielded
RECURSIVE Requests(_)
Requests(o) ==
    IF o = <<>> THEN <<>>
    ELSE IF Head(o).kind = "request" THEN <<Head(o).req>> \o Requests(Tail(o))
    ELSE Requests(Tail(o))

\* a yield as the log keeps it: a record with the page stamped on it, or a
\* next-page request with the page it asks for
Logged(e, cp) ==
    IF IsItem(e) THEN [k |-> "item", page |-> e.rec.page] ELSE [k |-> "next", page |-> cp]

\* the log keeps the yields that carry a page number: records stamped with
\* one, and next-page requests
RECURSIVE LogOf(_, _)
LogOf(o, cp) ==
    IF o = <<>> THEN <<>>
    ELSE IF (IsItem(Head(o)) /\ "page" \in DOMAIN Head(o).rec) \/ IsNextPage(Head(o))
    THEN <<Logged(Head(o), cp)>> \o LogOf(Tail(o), cp)
    ELSE LogOf(Tail(o), cp)

\* the processing script has not run; its input file and output directory
\* are empty
ProcessIdle ==
    /\ raw_data = JArray(<<>>)
    /\ files = <<>>
    /\ returned = NotRun
    /\ runs = 0

\* a crawl job: hooktheory takes a limit, the other spiders a page ceiling
Init ==
    /\ spider \in Spiders
    /\ lifo \in BOOLEAN
    /\ pages \in (IF spider = "hooktheory" THEN {0} ELSE 0..MaxPages)
    /\ limit \in (IF spider = "hooktheory" THEN 0..MaxLimit ELSE {0})
    /\ processed_count = 0
    /\ ProcessIdle
    /\ current_page = 1
    /\ queue = <<Request(StartUrl, "parse", NoMeta)>>
    /\ inflight = <<>>
    /\ response = NoResponse
    /\ out = <<>>
    /\ ran = {}
    /\ raised = FALSE
    /\ log = <<>>
    /\ parsed = 0

\* a step that runs no callback leaves nothing to report about one
NoCallback ==
    /\ response' = NoResponse
    /\ out' = <<>>
    /\ ran' = {}
    /\ raised' = FALSE

\* the engine sends a pending request when a download slot is free: the
\* newest or the oldest one, as the scheduler's queue is last-in or first-in
Send ==
    /\ Len(inflight) < ConcurrentRequests(spider)
    /\ queue # <<>>
    /\ LET i == IF lifo THEN Len(queue) ELSE 1 IN
          /\ inflight' = Append(inflight, queue[i])
          /\ queue' = Remove(queue, i)
    /\ NoCallback
    /\ UNCHANGED <<spider, lifo, pages, current_page, log, parsed, limit,
                   processed_count>>
    /\ UNCHANGED procvars

\* a download fails: no callback runs for that request
DownloadError ==
    /\ \E i \in 1..Len(inflight) : inflight' = Remove(inflight, i)
    /\ NoCallback
    /\ UNCHANGED <<spider, lifo, pages, current_page, queue, log, parsed, limit,
                   processed_count>>
    /\ UNCHANGED procvars

\* the callback of in-flight request i handled response resp with result
\* res, and left self.processed_count at count
Deliver(i, resp, res, count) ==
    /\ inflight' = Remove(inflight, i)
    /\ queue' = queue \o Requests(res.out)
    /\ current_page' = res.current_page
    /\ response' = resp
    /\ out' = res.out
    /\ ran' = res.ran
    /\ raised' = res.raised
    /\ log' = log \o LogOf(res.out, res.current_page)
    /\ parsed' = IF inflight[i].callback = "parse" THEN parsed + 1 ELSE parsed
    /\ processed_count' = count
    /\ UNCHANGED <<spider, lifo, pages, limit>>
    /\ UNCHANGED procvars

\* a callback of a spider that has no processed_count
Handle(i, resp, res) == Deliver(i, resp, res, processed_count)

Crawl_anime_character ==
    /\ spider = "anime_character"
    /\ \E i \in 1..Len(inflight), d \in ListingDocsOf[spider] :
          Handle(i, Response(inflight[i], d),
                 AnimeCharacterSpider_parse(Self, Response(inflight[i], d)))

Crawl_freesound ==
    /\ spider = "freesound"
    /\ \E i \in 1..Len(inflight), d \in ListingDocsOf[spider] :
          Handle(i, Response(inflight[i], d),
                 FreesoundSpider_parse(Self, Response(inflight[i], d)))

Crawl_musopen ==
    /\ spider = "musopen"
    /\ \E i \in 1..Len(inflight), d \in ListingDocsOf[spider] :
          Handle(i, Response(inflight[i], d),
                 MusopenSpider_parse(Self, Response(inflight[i], d)))

Crawl_anime_gf ==
    /\ spider = "anime_gf"
    /\ \E i \in 1..Len(inflight), d \in ListingDocsOf[spider] :
          /\ inflight[i].callback = "parse"
          /\ Handle(i, Response(inflight[i], d),
                    AnimeGfSpider_parse(Self, Response(inflight[i], d)))

Crawl_anime_gf_detail ==
    /\ spider = "anime_gf"
    /\ \E i \in 1..Len(inflight), d \in DetailDocsOf[spider] :
          /\ inflight[i].callback = "parse_character_detail"
          /\ Handle(i, Response(inflight[i], d),
                    AnimeGfSpider_parse_character_detail(Self, Response(inflight[i], d)))

Crawl_character_ai ==
    /\ spider = "character_ai"
    /\ \E i \in 1..Len(inflight), d \in ListingDocsOf[spider] :
          Handle(i, Response(inflight[i], d),
                 CharacterAiSpider_parse(Self, Response(inflight[i], d)))

Crawl_character_db ==
    /\ spider = "character_db"
    /\ \E i \in 1..Len(inflight), d \in ListingDocsOf[spider] :
          Handle(i, Response(inflight[i], d),
                 CharacterPersonalityDatabaseSpider_parse(Self, Response(inflight[i], d)))

Crawl_archive_org ==
    /\ spider = "archive_org"
    /\ \E i \in 1..Len(inflight), d \in ListingDocsOf[spider] :
          Handle(i, Response(inflight[i], d),
                 ArchiveOrgAudioSpider_parse(Self, Response(inflight[i], d)))

Crawl_personality_traits ==
    /\ spider = "personality_traits"
    /\ \E i \in 1..Len(inflight), d \in ListingDocsOf[spider] :
          /\ inflight[i].callback = "parse"
          /\ Handle(i, Response(inflight[i], d),
                    PersonalityTraitsSpider_parse(Self, Response(inflight[i], d)))

Crawl_personality_traits_detail ==
    /\ spider = "personality_traits"
    /\ \E i \in 1..Len(inflight), d \in DetailDocsOf[spider] :
          /\ inflight[i].callback = "parse_personality_detail"
          /\ Handle(i, Response(inflight[i], d),
                    PersonalityTraitsSpider_parse_personality_detail(
                        Self, Response(inflight[i], d)))

Crawl_hooktheory ==
    /\ spider = "hooktheory"
    /\ \E i \in 1..Len(inflight), d \in ListingDocsOf[spider] :
          Deliver(i, Response(inflight[i], d),
                  HooktheorySpider_parse(Self, Response(inflight[i], d)),
                  HooktheorySpider_parse(Self, Response(inflight[i], d)).processed_count)

\* a callback runs on a downloaded response
Callback ==
    \/ Crawl_anime_character
    \/ Crawl_freesound
    \/ Crawl_musopen
    \/ Crawl_anime_gf
    \/ Crawl_anime_gf_detail
    \/ Crawl_character_ai
    \/ Crawl_character_db
    \/ Crawl_archive_org
    \/ Crawl_personality_traits
    \/ Crawl_personality_traits_detail
    \/ Crawl_hooktheory

Next ==
    \/ Send
    \/ DownloadError
    \/ Crawl_anime_character
    \/ Crawl_freesound
    \/ Crawl_musopen
    \/ Crawl_anime_gf
    \/ Crawl_anime_gf_detail
    \/ Crawl_character_ai
    \/ Crawl_character_db
    \/ Crawl_archive_org
    \/ Crawl_personality_traits
    \/ Crawl_personality_traits_detail
    \/ Crawl_hooktheory

Spec == Init /\ [][Next]_vars

\* every request sent is answered or fails, and a pending request is sent
\* once a slot is free
FairSpec == Spec /\ WF_vars(Send) /\ WF_vars(Callback \/ DownloadError)

\* ------------------------------------------------------------------ the processing job
\* no crawl job is running: the script works on a file that a crawl of
\* anime_character exported earlier
CrawlIdle ==
    /\ spider = "anime_character"
    /\ lifo = FALSE
    /\ pages = 0
    /\ current_page = 1
    /\ queue = <<>>
    /\ inflight = <<>>
    /\ response = NoResponse
    /\ out = <<>>
    /\ ran = {}
    /\ raised = FALSE
    /\ log = <<>>
    /\ parsed = 0
    /\ limit = 0
    /\ processed_count = 0

ProcessInit ==
    /\ CrawlIdle
    /\ raw_data \in ProcessInputs
    /\ files = <<>>
    /\ returned = NotRun
    /\ runs = 0

\* python process-anime-character.py <json_file> [output_dir]
Process ==
    /\ runs < MaxRuns
    /\ runs' = runs + 1
    /\ files' = process_anime_character_data(raw_data, files).files
    /\ returned' = process_anime_character_data(raw_data, files).returned
    /\ UNCHANGED raw_data
    /\ UNCHANGED crawlvars

ProcessNext == Process

ProcessSpec == ProcessInit /\ [][ProcessNext]_vars

\* ------------------------------------------------------------------ properties
\* the records / next-page requests / drill-down requests among yields o
ItemsOf(o) == SelectSeq(o, IsItem)
NextPagesOf(o) == SelectSeq(o, IsNextPage)
DrillDownsOf(o) == SelectSeq(o, IsDrillDown)

\* no request for a listing page is waiting or in flight
NoPaginationPending ==
    /\ \A i \in 1..Len(queue) : queue[i].callback # "parse"
    /\ \A i \in 1..Len(inflight) : inflight[i].callback # "parse"

\* the first next-page cue the markup of the last response carries
\* (None if the last step parsed no markup listing)
MarkupCue ==
    IF ran \in {{"parse"}, {"parse_web"}} /\ spider # "personality_traits"
    THEN Get(response.sel, NextSelector(spider))
    ELSE None

\* C1: with a ceiling pages >= 1, a job never parses more than `pages`
\* listing pages, whatever the documents say, and it reaches a state from
\* which no pagination request is pending any more.
C1_PaginationBounded ==
    /\ [](pages >= 1 => parsed <= pages)
    /\ <>[](pages >= 1 => NoPaginationPending)

\* the ceiling, not the document, ended the crawl: the last page still
\* pointed to a next page
C1_Witness ==
    /\ pages >= 2
    /\ parsed = pages
    /\ Truthy(MarkupCue)
    /\ NoPaginationPending

\* C2: a next-page cue that resolves to the URL of the page being parsed
\* ends pagination on that page: no next-page request, counter unchanged.
C2_CycleGuard ==
    [][(Truthy(MarkupCue') /\ Urljoin(response'.url, MarkupCue') = response'.url)
          => (current_page' = current_page /\ NextPagesOf(out') = <<>>)]_vars

C4_AtMostOneNextPage == Len(NextPagesOf(out)) <= 1

C4_Witness ==
    /\ Len(GetAll(response.sel, NextSelector(spider))) >= 2
    /\ spider # "personality_traits"
    /\ Len(NextPagesOf(out)) = 1

\* C5: in every callback the records come before the next-page request, a
\* record's page stamp is the number of the listing page it was taken from,
\* and so every record of page N is yielded before the request for page N+1.
C5_RecordsBeforeNextPage ==
    /\ \A j, k \in 1..Len(out) : IsItem(out[j]) /\ IsNextPage(out[k]) => j < k
    /\ \A j \in 1..Len(out) :
          IsItem(out[j]) /\ "page" \in DOMAIN out[j].rec => out[j].rec.page = parsed
    /\ \A a, b \in 1..Len(log) :
          log[a].k = "item" /\ log[b].k = "next" =>
              IF a < b THEN log[a].page < log[b].page ELSE log[a].page >= log[b].page

C5_Witness ==
    /\ parsed = 2
    /\ \E j \in 1..Len(out) : IsItem(out[j]) /\ out[j].rec.page = 2
    /\ \E a, b \in 1..Len(log) :
          a < b /\ log[a] = [k |-> "item", page |-> 1] /\ log[b] = [k |-> "next", page |-> 2]

\* C6: at most one request of the job is in flight at any time, also when
\* one document made the callback yield several requests.
C6_OneInFlight == Len(inflight) <= 1

C6_Witness == Len(inflight) = 1 /\ Len(queue) >= 2

\* the field keys each source declares for its records: the keys of the
\* record its first parse path builds (for Freesound the API path, whose
\* fields the seed URL asks for; for the others the listing pass)
DeclaredKeys(s) ==
    CASE s = "freesound" ->
           {"id", "name", "url", "username", "duration", "license", "downloads",
            "description", "genre", "source", "page"}
      [] s = "anime_gf" ->
           {"id", "name", "anime", "description", "personality_type", "traits",
            "image_url", "rating", "popularity", "url", "category", "source", "page"}
      [] s = "personality_traits" ->
           {"id", "name", "code", "description", "traits", "strengths", "weaknesses",
            "url", "category", "source", "page"}
      [] s = "anime_character" ->
           {"id", "name", "url", "anime", "roles", "query", "source", "page"}
      [] s = "musopen" ->
           {"title", "composer", "duration", "music_id", "download_url", "category",
            "format", "page", "source"}
      [] s = "character_ai" ->
           {"id", "name", "description", "category", "author", "rating",
            "chat_count", "url", "avatar", "tags", "source", "page"}
      [] s = "character_db" ->
           {"id", "name", "description", "personality", "traits", "category",
            "origin", "role", "source", "url", "page"}
      [] s = "archive_org" ->
           {"title", "identifier", "creator", "date", "description", "download_url",
            "genre", "source", "page"}
      [] s = "hooktheory" ->
           {"progression", "count", "relative_count", "num_songs", "notation", "key",
            "source", "music_theory_data"}

\* C7: every record carries all the field keys its source declares,
\* whichever parse path produced it.
C7_AllKeysPresent ==
    \A j \in 1..Len(out) :
        IsItem(out[j]) => DeclaredKeys(spider) \subseteq DOMAIN out[j].rec

\* an item scope has an identifier or a link
IdSelectors ==
    {"::attr(data-id)", "::attr(data-sound-id)", "::attr(data-character-id)",
     "::attr(data-type)", "div.identifier::text", "div.music-item::attr(data-id)",
     "td:first-child::text"}

LinkSelectors ==
    {"td a::attr(href)", "a::attr(href)", "h3 a::attr(href)",
     "[data-url]::attr(data-url)", "a.title::attr(href)", "a.download::attr(href)"}

Identified(scope) ==
    \E q \in IdSelectors \cup LinkSelectors : Truthy(Strip(GetOr(scope, q, <<>>)))

\* C8: an item scope with neither an identifier nor a link yields no record
\* and no drill-down request, and raises nothing: a markup listing yields at
\* most as many records as it has scopes with an identifier or a link.
C8_UnidentifiedScopesSkipped ==
    (ran \in {{"parse"}, {"parse_web"}} /\ spider # "hooktheory") =>
        /\ Len(ItemsOf(out)) <= Len(SelectSeq(response.items, Identified))
        /\ spider = "anime_gf" =>
              Len(DrillDownsOf(out)) <= Len(SelectSeq(response.items, Identified))
        /\ ~raised

\* the stripped result of the first strategy whose stripped result is
\* non-empty, '' if there is none
RECURSIVE FirstNonEmpty(_)
FirstNonEmpty(results) ==
    IF results = <<>> THEN <<>>
    ELSE IF Truthy(Head(results)) /\ Strip(Head(results)) # <<>>
    THEN Strip(Head(results))
    ELSE FirstNonEmpty(Tail(results))

\* C9: a field with a chain of strategies gets the stripped result of the
\* first strategy whose stripped result is non-empty (checked on documents
\* all of whose scopes yield a record, so that records and scopes pair up).
C9_FirstNonEmptyWins ==
    /\ (spider = "anime_gf" /\ ran = {"parse"}
            /\ Len(ItemsOf(out)) = Len(response.items)) =>
          \A i \in 1..Len(response.items) :
              ItemsOf(out)[i].rec.name =
                  FirstNonEmpty(<<Get(response.items[i], "h3::text"),
                                  Get(response.items[i], "h4::text"),
                                  Get(response.items[i], "span.name::text"),
                                  Get(response.items[i], "a::text")>>)
    /\ (spider = "character_db" /\ ran = {"parse"}
            /\ Len(ItemsOf(out)) = Len(response.items)) =>
          \A i \in 1..Len(response.items) :
              ItemsOf(out)[i].rec.id =
                  FirstNonEmpty(<<Get(response.items[i], "::attr(data-id)"),
                                  Get(response.items[i], "td:first-child::text")>>)

\* the content-type of the last response begins with application/json
JsonContentType ==
    LET ct == IF "content-type" \in DOMAIN response.headers
              THEN response.headers["content-type"][1]
              ELSE <<>>
    IN  /\ Len(ct) >= Len(sApplicationJson)
        /\ \A k \in 1..Len(sApplicationJson) : ct[k] = sApplicationJson[k]

\* C10: Freesound parses a response on the JSON path if and only if its
\* content-type begins with application/json, on the markup path otherwise
\* (also with no content-type), and on exactly one of the two.
C10_PathByContentType ==
    (spider = "freesound" /\ ran # {}) =>
        /\ ran = {"parse_api"} <=> JsonContentType
        /\ ran = {"parse_web"} <=> ~JsonContentType

C10_Witness ==
    /\ spider = "freesound"
    /\ ran = {"parse_api"}
    /\ "content-type" \in DOMAIN response.headers
    /\ Len(response.headers["content-type"][1]) > Len(sApplicationJson)
    /\ ItemsOf(out) # <<>>

\* the last step parsed a response as structured data
StructuredParse ==
    \/ ran = {"parse_api"}
    \/ spider = "hooktheory" /\ ran = {"parse"}

\* the array of items the structured path of a spider reads
ItemsKey(s) == IF s = "hooktheory" THEN "trends" ELSE "results"

\* the body of the last response is not the expected format: it is no JSON,
\* or JSON that is no object, or an object without the array of items
MalformedBody ==
    IF response.json.t # "object" THEN TRUE
    ELSE IF ItemsKey(spider) \notin DOMAIN response.json.d THEN TRUE
    ELSE spider = "hooktheory" /\ response.json.d.trends.t # "array"

\* C11: a step that parses a malformed structured body emits no record,
\* schedules no request, leaves the page counter, the record counter and the
\* records of earlier pages as they were, and raises no exception.
C11_MalformedBodyIsEmptyPage ==
    [][(StructuredParse' /\ MalformedBody') =>
          /\ out' = <<>>
          /\ ~raised'
          /\ current_page' = current_page
          /\ processed_count' = processed_count
          /\ log' = log]_vars

\* the full dataset the last run saved (empty if it saved none)
Characters ==
    IF "myanimelist-characters.json" \in DOMAIN files
    THEN files["myanimelist-characters.json"]
    ELSE <<>>

\* C12: the saved dataset holds one record per entity key: no two of its
\* entries have the same id, whatever records the input held.
C12_OneEntryPerKey ==
    returned.t = "returned" =>
        \A i, j \in 1..Len(Characters) :
            Characters[i].id = Characters[j].id => i = j

\* the fields of a saved record that are copied from the input record
CopiedFields == {"mal_id", "url", "name"}

\* C13: in the saved dataset a later record of an entity key never has an
\* empty field where an earlier record of that key had a value.
C13_NeverRegressToEmpty ==
    returned.t = "returned" =>
        \A i, j \in 1..Len(Characters) :
            (i < j /\ Characters[i].id = Characters[j].id) =>
                \A f \in CopiedFields :
                    Characters[i][f] # <<>> => Characters[j][f] # <<>>

\* the grouped datasets the last run saved
BySeries == files["myanimelist-by-series.json"]
ByCategory == files["myanimelist-by-category.json"]

\* C14: a second run of the script on the same input leaves every saved
\* dataset (full, by series, by category, summary) and the returned summary
\* exactly as the first run left them, in content and in order.
C14_SecondRunSameOutput ==
    [][(runs >= 1 /\ runs' = runs + 1) =>
          (files' = files /\ returned' = returned)]_vars

C14_Witness ==
    /\ runs = 2
    /\ returned.t = "returned"
    /\ Len(Characters) = 3
    /\ Len(BySeries) = 2
    /\ Len(ByCategory) = 2

\* the sum of the sizes of the groups of a grouped dataset
RECURSIVE GroupSizes(_)
GroupSizes(d) == IF d = <<>> THEN 0 ELSE Len(Head(d).members) + GroupSizes(Tail(d))

\* grouped dataset d groups the saved records by field f: one group per
\* distinct value, holding exactly the records with that value, in order
GroupedBy(d, f) ==
    /\ \A i, j \in 1..Len(d) : d[i].key = d[j].key => i = j
    /\ {d[i].key : i \in 1..Len(d)} = {Characters[n][f] : n \in 1..Len(Characters)}
    /\ \A i \in 1..Len(d) :
          LET InGroup(c) == c[f] = d[i].key
          IN  d[i].members = SelectSeq(Characters, InGroup)
    /\ GroupSizes(d) = Len(Characters)

\* C15: both groupings have one group per distinct key value, every saved
\* record is in exactly the group of its value, the group sizes sum to the
\* summary's total, and the summary's group count and group names are those
\* of the groups saved.
C15_GroupsMatchSummary ==
    returned.t = "returned" =>
        /\ GroupedBy(BySeries, "series")
        /\ GroupedBy(ByCategory, "category")
        /\ returned.v.total_characters = GroupSizes(BySeries)
        /\ returned.v.total_characters = GroupSizes(ByCategory)
        /\ returned.v.unique_series = Len(BySeries)
        /\ returned.v.series_list = Keys(BySeries)
        /\ returned.v.categories = Keys(ByCategory)
        /\ files["myanimelist-summary.json"] = returned.v

\* three records in two series, two of them in one
C15_Witness ==
    /\ returned.t = "returned"
    /\ Len(Characters) = 3
    /\ Len(BySeries) = 2
    /\ \E i \in 1..Len(BySeries) : Len(BySeries[i].members) = 2

\* the title the detail page of the last response shows, stripped
DetailTitle == Strip(GetOr(response.sel, "h1.title::text", <<>>))

NextCue ==
    IF ran = {"parse_api"}
    THEN IF response.json.t = "object" THEN DictGet(response.json.d, "next", None)
         ELSE None
    ELSE MarkupCue

\* C17: a callback that parses, without an exception, a page below the
\* ceiling that carries a next-page cue schedules the request for the next
\* page, however many records the page held.
C17_CueBelowCeilingContinues ==
    [][(ran' # {} /\ ~raised' /\ current_page < pages /\ Truthy(NextCue')) =>
          NextPagesOf(out') # <<>>]_vars

\* the trends of the last response that have a chord with a non-empty name
NamedTrends ==
    IF response.json.t = "object" /\ "trends" \in DOMAIN response.json.d
       /\ response.json.d.trends.t = "array"
    THEN LET Named(trend) ==
                 /\ trend.t = "object"
                 /\ "chords" \in DOMAIN trend.d
                 /\ \E i \in 1..Len(trend.d.chords) :
                       /\ trend.d.chords[i].t = "object"
                       /\ Truthy(DictGet(trend.d.chords[i].d, "chord", <<>>))
         IN  SelectSeq(response.json.d.trends.a, Named)
    ELSE <<>>

\* C18: in a hooktheory job (one seed, no follow-up request, so the records
\* emitted so far are those of `out`) the counter equals the number of
\* records emitted and is at most the limit; only trends with a non-empty
\* chord name give a record; and a callback that starts with the counter at
\* the limit emits nothing.
C18_CounterCountsRecords ==
    /\ [](spider = "hooktheory" =>
            /\ processed_count = Len(ItemsOf(out))
            /\ processed_count <= limit
            /\ Len(ItemsOf(out)) <= Len(NamedTrends))
    /\ [][(spider = "hooktheory" /\ processed_count >= limit) =>
             (ItemsOf(out') = <<>> /\ processed_count' = processed_count)]_vars

\* the limit cut the page short: more trends with chord names than records
C18_Witness ==
    /\ spider = "hooktheory"
    /\ limit = 1
    /\ processed_count = 1
    /\ Len(NamedTrends) = 2
    /\ Len(response.json.d.trends.a) = 2

====
